---- MODULE Spec2Model ----
(***************************************************************************)
(* Task positioning of clay-tasks: createTask / moveTask / deleteTask of   *)
(* server/src/handlers/tasks.ts over the tasks table of db/schema.ts.      *)
(* The store is the set of task rows; every SQL statement of a handler is  *)
(* an operator on that set, and a handler is the sequence of its           *)
(* statements.                                                             *)
(***************************************************************************)
EXTENDS Integers, Sequences, FiniteSets, TLC

VARIABLES projects, tasks, nextId, lastOp, calls

vars == <<projects, tasks, nextId, lastOp, calls>>

----------------------------------------------------------------------------
(* Bounds of the model *)

\* serial ids handed out by the tasks table: 1..MaxTasks
MaxTasks == 3
\* largest position a row may hold, and largest target position a call passes
MaxPosition == 2
\* the number of tasks in the store of the specifications with updateTask calls
MaxUpdateTasks == 2

----------------------------------------------------------------------------
(* The schema *)

TaskStatusEnum == <<"todo", "in_progress", "review", "done">>

Statuses == {TaskStatusEnum[i] : i \in 1..Len(TaskStatusEnum)}

\* ids a row of projectsTable may have; the rows of usersTable (the task
\* handlers write neither table)
ProjectIds == {1, 2}
UserIds == {1}

\* a user id that names no row of usersTable
MissingId == 99999

\* an absent optional assignee_id (falsy in `if (input.assignee_id)`)
NoAssignee == 0

\* null returned by getTaskById
NoTask == [id |-> 0, project_id |-> 0, status |-> "none", position |-> 0]

TaskIds == 1..MaxTasks

\* inputs the routes accept (z.number().int() for position: any integer)
StatusInputs == {"todo", "in_progress"}
PositionInputs == -1..MaxPosition

CreateTaskInputs ==
    [project_id : ProjectIds,
     created_by : UserIds \cup {MissingId},
     assignee_id : {NoAssignee} \cup UserIds \cup {MissingId},
     status : StatusInputs]

MoveTaskInputs == [id : TaskIds, status : StatusInputs, position : PositionInputs]

\* the rows stay within the positions the model explores
PositionsBounded(T) == \A t \in T : t.position \in -1..MaxPosition

----------------------------------------------------------------------------
(* Store statements *)

\* mutant: a row is returned whenever the table has one (the id matched or not)
getTaskByIdAnyRow(T, id) ==
    IF \E t \in T : t.id = id THEN CHOOSE t \in T : t.id = id
    ELSE IF T # {} THEN CHOOSE t \in T : TRUE
    ELSE [id |-> 0, project_id |-> 0, status |-> "none", position |-> 0]

\* db.select().from(tasksTable).where(eq(id)).limit(1): the row or null
getTaskById(T, id) ==
    IF \E t \in T : t.id = id THEN CHOOSE t \in T : t.id = id ELSE NoTask

\* mutant: the position is the number of rows of the column
nextPositionCount(T, project_id, status) ==
    Cardinality({u \in T : u.project_id = project_id /\ u.status = status})

\* mutant: the maximum is taken over every status of the project
nextPositionAnyStatus(T, project_id, status) ==
    LET col == {t.position : t \in {u \in T : u.project_id = project_id}}
    IN (IF col = {} THEN -1 ELSE CHOOSE m \in col : \A q \in col : q <= m) + 1

\* select max(position) where project_id, status; then
\* (maxPositionResult[0]?.maxPosition ?? -1) + 1, max() being NULL on no rows
nextPosition(T, project_id, status) ==
    LET col == {t.position : t \in {u \in T : u.project_id = project_id /\ u.status = status}}
    IN (IF col = {} THEN -1 ELSE CHOOSE m \in col : \A q \in col : q <= m) + 1

\* UPDATE tasks SET position = position + delta WHERE <where(row)>
updatePositions(T, where(_), delta) ==
    {IF where(t) THEN [t EXCEPT !.position = @ + delta] ELSE t : t \in T}

\* mutant: the new row goes to the head of its column, the others move down
insertTaskAtHead(T, id, project_id, status, position) ==
    {IF t.project_id = project_id /\ t.status = status
       THEN [t EXCEPT !.position = @ + 1] ELSE t : t \in T}
      \cup {[id |-> id, project_id |-> project_id, status |-> status, position |-> 0]}

\* db.insert(tasksTable).values({... position: nextPosition ...})
insertTask(T, id, project_id, status, position) ==
    T \cup {[id |-> id, project_id |-> project_id, status |-> status, position |-> position]}

\* mutant: the row at the target position is left where it is
shiftMovingUpOpenStart(T, existingTask, input) ==
    LET where(t) == /\ t.project_id = existingTask.project_id
                    /\ t.status = input.status
                    /\ t.position > input.position
                    /\ t.position < existingTask.position
    IN updatePositions(T, where, 1)

\* moving up in a column: rows in [input.position, existingTask.position) go down one
shiftMovingUp(T, existingTask, input) ==
    LET where(t) == /\ t.project_id = existingTask.project_id
                    /\ t.status = input.status
                    /\ t.position >= input.position
                    /\ t.position < existingTask.position
    IN updatePositions(T, where, 1)

\* mutant: the row at the target position is left where it is
shiftMovingDownOpenEnd(T, existingTask, input) ==
    LET where(t) == /\ t.project_id = existingTask.project_id
                    /\ t.status = input.status
                    /\ t.position > existingTask.position
                    /\ t.position < input.position
    IN updatePositions(T, where, -1)

\* mutant: the status of the column is not matched
shiftMovingDownAnyStatus(T, existingTask, input) ==
    LET where(t) == /\ t.project_id = existingTask.project_id
                    /\ t.position > existingTask.position
                    /\ t.position <= input.position
    IN updatePositions(T, where, -1)

\* moving down in a column: rows in (existingTask.position, input.position] go up one
shiftMovingDown(T, existingTask, input) ==
    LET where(t) == /\ t.project_id = existingTask.project_id
                    /\ t.status = input.status
                    /\ t.position > existingTask.position
                    /\ t.position <= input.position
    IN updatePositions(T, where, -1)

\* mutant: the row at the insert position is left where it is
shiftNewColumnAfterTarget(T, existingTask, input) ==
    LET where(t) == /\ t.project_id = existingTask.project_id
                    /\ t.status = input.status
                    /\ t.position > input.position
    IN updatePositions(T, where, 1)

\* mutant: the project of the moved row is not matched
shiftNewColumnAnyProject(T, existingTask, input) ==
    LET where(t) == /\ t.status = input.status
                    /\ t.position >= input.position
    IN updatePositions(T, where, 1)

\* other status: make room in the new column from the insert position on
shiftNewColumn(T, existingTask, input) ==
    LET where(t) == /\ t.project_id = existingTask.project_id
                    /\ t.status = input.status
                    /\ t.position >= input.position
    IN updatePositions(T, where, 1)

\* mutant: no row of the old column moves up
shiftOldColumnSkipped(T, existingTask) == T

\* mutant: the row right after the task is left where it is
shiftOldColumnAfterNext(T, existingTask) ==
    LET where(t) == /\ t.project_id = existingTask.project_id
                    /\ t.status = existingTask.status
                    /\ t.position > existingTask.position + 1
    IN updatePositions(T, where, -1)

\* other status: close the gap the task leaves in its old column
shiftOldColumn(T, existingTask) ==
    LET where(t) == /\ t.project_id = existingTask.project_id
                    /\ t.status = existingTask.status
                    /\ t.position > existingTask.position
    IN updatePositions(T, where, -1)

\* db.update(tasksTable).set({status, position}).where(eq(id))
updateMovedTask(T, input) ==
    {IF t.id = input.id
       THEN [t EXCEPT !.status = input.status, !.position = input.position]
       ELSE t : t \in T}

\* db.delete(tasksTable).where(eq(id))
deleteRow(T, id) == {t \in T : t.id # id}

\* mutant: the status of the deleted row is not matched
shiftAfterDeleteAnyStatus(T, existingTask) ==
    LET where(t) == /\ t.project_id = existingTask.project_id
                    /\ t.position > existingTask.position
    IN updatePositions(T, where, -1)

\* mutant: the project of the deleted row is not matched
shiftAfterDeleteAnyProject(T, existingTask) ==
    LET where(t) == /\ t.status = existingTask.status
                    /\ t.position > existingTask.position
    IN updatePositions(T, where, -1)

\* deleteTask: the rows after the deleted one in its column go up one
shiftAfterDelete(T, existingTask) ==
    LET where(t) == /\ t.project_id = existingTask.project_id
                    /\ t.status = existingTask.status
                    /\ t.position > existingTask.position
    IN updatePositions(T, where, -1)

----------------------------------------------------------------------------
(* Columns *)

Column(T, project_id, status) == {t \in T : t.project_id = project_id /\ t.status = status}

\* positions exactly {0, ..., k-1}, k the number of rows of the column
Dense(T, project_id, status) ==
    {t.position : t \in Column(T, project_id, status)}
        = 0..(Cardinality(Column(T, project_id, status)) - 1)

\* the ids of a column whose positions are distinct, by ascending position
ColumnOrder(T, project_id, status) ==
    LET col == Column(T, project_id, status)
    IN [i \in 1..Cardinality(col) |->
          (CHOOSE t \in col : Cardinality({u \in col : u.position < t.position}) = i - 1).id]

Remove(seq, id) == SelectSeq(seq, LAMBDA x : x # id)

\* seq with id put at 0-based index i
InsertAt(seq, i, id) == SubSeq(seq, 1, i) \o <<id>> \o SubSeq(seq, i + 1, Len(seq))

HasRow(T, id) == \E t \in T : t.id = id

----------------------------------------------------------------------------
(* Handlers, each run to completion on the store T *)

\* mutant: the assignee is not looked up
createTaskCheckNoAssignee(P, input) ==
    IF input.project_id \notin P THEN "Project not found"
    ELSE IF input.created_by \notin UserIds THEN "Creator user not found"
    ELSE "ok"

\* the checks of createTask before any write: the error thrown, or "ok"
createTaskCheck(P, input) ==
    IF input.project_id \notin P THEN "Project not found"
    ELSE IF input.created_by \notin UserIds THEN "Creator user not found"
    ELSE IF input.assignee_id # NoAssignee /\ input.assignee_id \notin UserIds
         THEN "Assignee user not found"
    ELSE "ok"

\* the store after createTask(input) with projects P, the new row getting the
\* serial id
createTaskStore(P, T, id, input) ==
    IF createTaskCheck(P, input) # "ok" THEN T
    ELSE insertTask(T, id, input.project_id, input.status,
                    nextPosition(T, input.project_id, input.status))

\* mutant: room is made at the target whatever the branch, no gap is closed
moveTaskShiftsMakeRoomOnly(T, existingTask, input) ==
    shiftNewColumn(T, existingTask, input)

\* the shift statements of moveTask for the row read as existingTask
moveTaskShifts(T, existingTask, input) ==
    IF existingTask.status = input.status
    THEN IF input.position < existingTask.position
           THEN shiftMovingUp(T, existingTask, input)
         ELSE IF input.position > existingTask.position
           THEN shiftMovingDown(T, existingTask, input)
         ELSE T
    ELSE shiftOldColumn(shiftNewColumn(T, existingTask, input), existingTask)

\* the store after moveTask(input)
moveTaskStore(T, input) ==
    LET existingTask == getTaskById(T, input.id)
    IN IF existingTask = NoTask THEN T
       ELSE updateMovedTask(moveTaskShifts(T, existingTask, input), input)

\* the store after deleteTask(id)
deleteTaskStore(T, id) ==
    LET existingTask == getTaskById(T, id)
    IN IF existingTask = NoTask THEN T
       ELSE shiftAfterDelete(deleteRow(T, id), existingTask)

----------------------------------------------------------------------------
(* State *)

\* callers of the routes
Procs == {1, 2}

NoInput == [id |-> 0, status |-> "none", position |-> 0]

\* a caller's call in flight: the handler and its input, the statement it is
\* at (pc), its local existingTask, the store it started on, the number of
\* writing statements it has run and what it returned or threw
Idle == [pc |-> "idle", op |-> "none", input |-> NoInput, existingTask |-> NoTask,
         before |-> {}, applied |-> 0, result |-> "none"]

\* the call of handler op on input, about to run its first statement on store T
Started(op, input, T) ==
    [pc |-> "getTaskById", op |-> op, input |-> input, existingTask |-> NoTask,
     before |-> T, applied |-> 0, result |-> "none"]

\* the last call that returned: its name, the id of the task it was about, the
\* status of the row it read as existingTask (moveTask, deleteTask), the row
\* it wrote (createTask, moveTask) and what it returned or threw
NoOp == [op |-> "none", id |-> 0, from |-> "none", row |-> NoTask, result |-> "none"]

\* an empty tasks table and one project: project id 2 names no row
Init ==
    /\ projects = {1}
    /\ tasks = {}
    /\ nextId = 1
    /\ lastOp = NoOp
    /\ calls = [p \in Procs |-> Idle]

----------------------------------------------------------------------------
(* Calls that run to completion *)

CreateTask(input) ==
    LET check == createTaskCheck(projects, input)
        position == nextPosition(tasks, input.project_id, input.status)
    IN /\ check = "ok" => (nextId <= MaxTasks /\ position <= MaxPosition)
       /\ tasks' = createTaskStore(projects, tasks, nextId, input)
       /\ nextId' = IF check = "ok" THEN nextId + 1 ELSE nextId
       /\ lastOp' = [op |-> "createTask",
                     id |-> IF check = "ok" THEN nextId ELSE 0,
                     from |-> "none",
                     row |-> IF check = "ok" THEN getTaskById(tasks', nextId) ELSE NoTask,
                     result |-> check]
       /\ UNCHANGED <<projects, calls>>

MoveTask(input) ==
    /\ PositionsBounded(moveTaskStore(tasks, input))
    /\ tasks' = moveTaskStore(tasks, input)
    /\ lastOp' = [op |-> "moveTask", id |-> input.id,
                  from |-> getTaskById(tasks, input.id).status,
                  row |-> getTaskById(tasks', input.id),
                  result |-> IF getTaskById(tasks, input.id) = NoTask
                             THEN "Task not found" ELSE "ok"]
    /\ UNCHANGED <<projects, nextId, calls>>

\* mutant: a missing task is an error, as in moveTask
DeleteTaskThrows(id) ==
    /\ tasks' = deleteTaskStore(tasks, id)
    /\ lastOp' = [op |-> "deleteTask", id |-> id,
                  from |-> getTaskById(tasks, id).status,
                  row |-> NoTask,
                  result |-> IF getTaskById(tasks, id) = NoTask
                               THEN "Task not found" ELSE "true"]
    /\ UNCHANGED <<projects, nextId, calls>>

DeleteTask(id) ==
    /\ tasks' = deleteTaskStore(tasks, id)
    /\ lastOp' = [op |-> "deleteTask", id |-> id,
                  from |-> getTaskById(tasks, id).status,
                  row |-> NoTask,
                  result |-> IF getTaskById(tasks, id) = NoTask THEN "false" ELSE "true"]
    /\ UNCHANGED <<projects, nextId, calls>>

Next ==
    \/ \E input \in CreateTaskInputs : CreateTask(input)
    \/ \E input \in MoveTaskInputs : MoveTask(input)
    \/ \E id \in TaskIds : DeleteTask(id)

Spec == Init /\ [][Next]_vars

----------------------------------------------------------------------------
(* Calls that run statement by statement: every await of a handler is one    *)
(* step, and steps of different callers interleave. No handler opens a       *)
(* transaction, so every statement commits on its own.                       *)

\* the call of p returns or throws
Return(p, result) ==
    /\ calls' = [calls EXCEPT ![p].pc = "done", ![p].result = result]
    /\ lastOp' = [op |-> calls[p].op, id |-> calls[p].input.id,
                  from |-> calls[p].existingTask.status,
                  row |-> IF calls[p].op = "moveTask"
                            THEN getTaskById(tasks', calls[p].input.id) ELSE NoTask,
                  result |-> result]

\* the call of p goes on to statement pc, having run `writes` writing statements
Goto(p, pc, writes) ==
    /\ calls' = [calls EXCEPT ![p].pc = pc, ![p].applied = @ + writes]
    /\ UNCHANGED lastOp

\* moveTask: const existingTask = await getTaskById(input.id), and the branch
MoveGetTaskById(p) ==
    LET c == calls[p]
        e == getTaskById(tasks, c.input.id)
    IN /\ c.op = "moveTask" /\ c.pc = "getTaskById"
       /\ UNCHANGED <<projects, tasks, nextId>>
       /\ IF e = NoTask
            THEN Return(p, "Task not found")
            ELSE /\ calls' = [calls EXCEPT
                       ![p].existingTask = e,
                       ![p].pc = IF e.status = c.input.status
                                   THEN IF c.input.position < e.position THEN "shiftMovingUp"
                                        ELSE IF c.input.position > e.position
                                               THEN "shiftMovingDown"
                                        ELSE "updateMovedTask"
                                   ELSE "shiftNewColumn"]
                 /\ UNCHANGED lastOp

MoveShiftMovingUp(p) ==
    /\ calls[p].op = "moveTask" /\ calls[p].pc = "shiftMovingUp"
    /\ tasks' = shiftMovingUp(tasks, calls[p].existingTask, calls[p].input)
    /\ Goto(p, "updateMovedTask", 1)
    /\ UNCHANGED <<projects, nextId>>

MoveShiftMovingDown(p) ==
    /\ calls[p].op = "moveTask" /\ calls[p].pc = "shiftMovingDown"
    /\ tasks' = shiftMovingDown(tasks, calls[p].existingTask, calls[p].input)
    /\ Goto(p, "updateMovedTask", 1)
    /\ UNCHANGED <<projects, nextId>>

MoveShiftNewColumn(p) ==
    /\ calls[p].op = "moveTask" /\ calls[p].pc = "shiftNewColumn"
    /\ tasks' = shiftNewColumn(tasks, calls[p].existingTask, calls[p].input)
    /\ Goto(p, "shiftOldColumn", 1)
    /\ UNCHANGED <<projects, nextId>>

MoveShiftOldColumn(p) ==
    /\ calls[p].op = "moveTask" /\ calls[p].pc = "shiftOldColumn"
    /\ tasks' = shiftOldColumn(tasks, calls[p].existingTask)
    /\ Goto(p, "updateMovedTask", 1)
    /\ UNCHANGED <<projects, nextId>>

\* the final update; result[0] is undefined when the row is gone
MoveUpdateMovedTask(p) ==
    /\ calls[p].op = "moveTask" /\ calls[p].pc = "updateMovedTask"
    /\ tasks' = updateMovedTask(tasks, calls[p].input)
    /\ Return(p, IF HasRow(tasks, calls[p].input.id) THEN "ok" ELSE "undefined")
    /\ UNCHANGED <<projects, nextId>>

\* deleteTask: const existingTask = await getTaskById(id)
DeleteGetTaskById(p) ==
    LET e == getTaskById(tasks, calls[p].input.id)
    IN /\ calls[p].op = "deleteTask" /\ calls[p].pc = "getTaskById"
       /\ UNCHANGED <<projects, tasks, nextId>>
       /\ IF e = NoTask
            THEN Return(p, "false")
            ELSE /\ calls' = [calls EXCEPT ![p].existingTask = e, ![p].pc = "deleteRow"]
                 /\ UNCHANGED lastOp

\* the delete statement; its rowCount is what the call returns in the end
DeleteDeleteRow(p) ==
    /\ calls[p].op = "deleteTask" /\ calls[p].pc = "deleteRow"
    /\ tasks' = deleteRow(tasks, calls[p].input.id)
    /\ calls' = [calls EXCEPT ![p].pc = "shiftAfterDelete", ![p].applied = @ + 1,
                              ![p].result = IF HasRow(tasks, calls[p].input.id)
                                              THEN "true" ELSE "false"]
    /\ UNCHANGED <<projects, nextId, lastOp>>

DeleteShiftAfterDelete(p) ==
    /\ calls[p].op = "deleteTask" /\ calls[p].pc = "shiftAfterDelete"
    /\ tasks' = shiftAfterDelete(tasks, calls[p].existingTask)
    /\ Return(p, calls[p].result)
    /\ UNCHANGED <<projects, nextId>>

\* the call of createTask on input, about to run its checks on store T
StartedCreate(input, T) ==
    [pc |-> "createTaskCheck", op |-> "createTask", input |-> input, existingTask |-> NoTask,
     before |-> T, applied |-> 0, result |-> "none", nextPosition |-> 0]

\* createTask: the selects on projects and users, and the errors thrown
CreateCreateTaskCheck(p) ==
    LET check == createTaskCheck(projects, calls[p].input)
    IN /\ calls[p].op = "createTask" /\ calls[p].pc = "createTaskCheck"
       /\ calls' = [calls EXCEPT ![p].pc = IF check = "ok" THEN "nextPosition" ELSE "done",
                                 ![p].result = IF check = "ok" THEN "none" ELSE check]
       /\ lastOp' = IF check = "ok" THEN lastOp
                    ELSE [op |-> "createTask", id |-> 0, from |-> "none", row |-> NoTask,
                          result |-> check]
       /\ UNCHANGED <<projects, tasks, nextId>>

\* createTask: the select of max(position), kept in the local nextPosition
CreateNextPosition(p) ==
    /\ calls[p].op = "createTask" /\ calls[p].pc = "nextPosition"
    /\ calls' = [calls EXCEPT
          ![p].pc = "insertTask",
          ![p].nextPosition = nextPosition(tasks, calls[p].input.project_id, calls[p].input.status)]
    /\ UNCHANGED <<projects, tasks, nextId, lastOp>>

\* createTask: the insert with the position read before; the id is the next
\* of the serial
CreateInsertTask(p) ==
    /\ calls[p].op = "createTask" /\ calls[p].pc = "insertTask"
    /\ tasks' = insertTask(tasks, nextId, calls[p].input.project_id, calls[p].input.status,
                           calls[p].nextPosition)
    /\ nextId' = nextId + 1
    /\ calls' = [calls EXCEPT ![p].pc = "done", ![p].applied = @ + 1, ![p].result = "ok"]
    /\ lastOp' = [op |-> "createTask", id |-> nextId, from |-> "none",
                  row |-> getTaskById(tasks', nextId), result |-> "ok"]
    /\ UNCHANGED projects

CreateTaskStep(p) ==
    \/ CreateCreateTaskCheck(p)
    \/ CreateNextPosition(p)
    \/ CreateInsertTask(p)

\* the statement the call of p is at throws (the connection is lost, the
\* request is cancelled): the catch block logs and rethrows, nothing is undone
StatementFails(p) ==
    /\ calls[p].pc \notin {"idle", "done", "failed"}
    /\ calls' = [calls EXCEPT ![p].pc = "failed", ![p].result = "store error"]
    /\ UNCHANGED <<projects, tasks, nextId, lastOp>>

MoveTaskStep(p) ==
    \/ MoveGetTaskById(p)
    \/ MoveShiftMovingUp(p)
    \/ MoveShiftMovingDown(p)
    \/ MoveShiftNewColumn(p)
    \/ MoveShiftOldColumn(p)
    \/ MoveUpdateMovedTask(p)

DeleteTaskStep(p) ==
    \/ DeleteGetTaskById(p)
    \/ DeleteDeleteRow(p)
    \/ DeleteShiftAfterDelete(p)

\* the store after createTask calls with statuses f[1], ..., f[n] into project 1
StoreOf(f) ==
    {[id |-> i, project_id |-> 1, status |-> f[i],
      position |-> Cardinality({j \in 1..(i - 1) : f[j] = f[i]})] : i \in DOMAIN f}

DenseStores == {StoreOf(f) : f \in UNION {[1..n -> StatusInputs] : n \in 1..MaxTasks}}

\* moveTask inputs on store T with the target inside the destination column:
\* 0..k-1 within a column of k tasks, 0..n into a column of n tasks
InRangeMoves(T) ==
    {input \in MoveTaskInputs :
        LET e == getTaskById(T, input.id)
            n == Cardinality(Column(T, e.project_id, input.status))
        IN /\ e # NoTask
           /\ input.position >= 0
           /\ input.position <= IF e.status = input.status THEN n - 1 ELSE n}

DeleteInput(id) == [id |-> id, status |-> "none", position |-> 0]

----------------------------------------------------------------------------
(* Creations only, in two projects *)

InitCreate ==
    /\ projects = ProjectIds
    /\ tasks = {}
    /\ nextId = 1
    /\ lastOp = NoOp
    /\ calls = [p \in Procs |-> Idle]

NextCreate == \E input \in CreateTaskInputs : CreateTask(input)

SpecCreate == InitCreate /\ [][NextCreate]_vars

(* Creations only, on a store that holds rows of project 1; project 2 may
   or may not exist *)

InitGuard ==
    /\ projects \in {{1}, ProjectIds}
    /\ tasks \in DenseStores
    /\ nextId = Cardinality(tasks) + 1
    /\ lastOp = NoOp
    /\ calls = [p \in Procs |-> Idle]

SpecGuard == InitGuard /\ [][NextCreate]_vars

(* Two callers each in a moveTask call with an in-range target, on a dense store *)

InitMoveMove ==
    /\ projects = {1}
    /\ tasks \in DenseStores
    /\ nextId = Cardinality(tasks) + 1
    /\ lastOp = NoOp
    /\ calls \in [Procs -> {Started("moveTask", input, tasks) : input \in InRangeMoves(tasks)}]

NextMoveMove == \E p \in Procs : MoveTaskStep(p)

SpecMoveMove == InitMoveMove /\ [][NextMoveMove]_vars

(* One caller in a moveTask or deleteTask call whose statements may fail *)

InitFail ==
    /\ projects = {1}
    /\ tasks \in DenseStores
    /\ nextId = Cardinality(tasks) + 1
    /\ lastOp = NoOp
    /\ \E c \in {Started("moveTask", input, tasks) : input \in MoveTaskInputs}
                \cup {Started("deleteTask", DeleteInput(id), tasks) : id \in TaskIds} :
          calls = [p \in Procs |-> IF p = 1 THEN c ELSE Idle]

NextFail == \E p \in Procs : MoveTaskStep(p) \/ DeleteTaskStep(p) \/ StatementFails(p)

SpecFail == InitFail /\ [][NextFail]_vars

----------------------------------------------------------------------------
(* updateTask calls, each run to completion, on a store that holds rows *)

\* updateTaskInputSchema: status and position are optional; an absent status
\* is "undefined", position is {} when absent and {p} when p is supplied; the
\* assignee is absent or names no user (one that exists passes the check as
\* an absent one does, and is no part of the rows here)
UpdateTaskInputs ==
    [id : 1..MaxUpdateTasks,
     assignee_id : {NoAssignee, MissingId},
     status : StatusInputs \cup {"undefined"},
     position : {{}} \cup {{p} : p \in PositionInputs}]

\* the checks of updateTask before the write: the error thrown, or "ok"
updateTaskCheck(T, input) ==
    IF getTaskById(T, input.id) = NoTask THEN "Task not found"
    ELSE IF input.assignee_id # NoAssignee /\ input.assignee_id \notin UserIds
      THEN "Assignee user not found"
    ELSE "ok"

\* mutant: a status change keeps the position the task had
updateDataKeepsPosition(T, existingTask, input) ==
    [status |-> IF input.status # "undefined" THEN input.status ELSE existingTask.status,
     position |-> IF input.position # {} THEN CHOOSE p \in input.position : TRUE
                  ELSE existingTask.position]

\* mutant: a supplied status appends to its column, changed or not
updateDataAppendsOnAnyStatus(T, existingTask, input) ==
    [status |-> IF input.status # "undefined" THEN input.status ELSE existingTask.status,
     position |->
        IF input.status # "undefined"
          THEN IF input.position # {} THEN CHOOSE p \in input.position : TRUE
               ELSE nextPosition(T, existingTask.project_id, input.status)
        ELSE IF input.position # {} THEN CHOOSE p \in input.position : TRUE
        ELSE existingTask.position]

\* updateData: the status and position written to the row; fields the patch
\* leaves out keep the row's value
updateData(T, existingTask, input) ==
    [status |-> IF input.status # "undefined" THEN input.status ELSE existingTask.status,
     position |->
        IF input.status # "undefined" /\ input.status # existingTask.status
          THEN IF input.position # {} THEN CHOOSE p \in input.position : TRUE
               ELSE nextPosition(T, existingTask.project_id, input.status)
        ELSE IF input.position # {} THEN CHOOSE p \in input.position : TRUE
        ELSE existingTask.position]

\* mutant: the rows at or after the written position of the column move down
updateRowMakingRoom(T, id, data) ==
    LET e == getTaskById(T, id)
    IN {IF t.id = id THEN [t EXCEPT !.status = data.status, !.position = data.position]
        ELSE IF /\ t.project_id = e.project_id /\ t.status = data.status
                /\ t.position >= data.position
          THEN [t EXCEPT !.position = @ + 1]
        ELSE t : t \in T}

\* db.update(tasksTable).set(updateData).where(eq(id))
updateRow(T, id, data) ==
    {IF t.id = id THEN [t EXCEPT !.status = data.status, !.position = data.position]
     ELSE t : t \in T}

updateTaskStore(T, input) ==
    IF updateTaskCheck(T, input) # "ok" THEN T
    ELSE updateRow(T, input.id, updateData(T, getTaskById(T, input.id), input))

UpdateTask(input) ==
    LET check == updateTaskCheck(tasks, input)
        store == updateTaskStore(tasks, input)
    IN /\ PositionsBounded(store)
       /\ tasks' = store
       /\ lastOp' = [op |-> "updateTask", id |-> input.id,
                     from |-> getTaskById(tasks, input.id).status,
                     row |-> IF check = "ok" THEN getTaskById(store, input.id) ELSE NoTask,
                     result |-> check,
                     patch |-> [status |-> input.status, position |-> input.position]]
       /\ UNCHANGED <<projects, nextId, calls>>

\* the store as up to MaxUpdateTasks creations in project 1 filled it
InitUpdate ==
    /\ projects = {1}
    /\ tasks \in {T \in DenseStores : Cardinality(T) <= MaxUpdateTasks}
    /\ nextId = Cardinality(tasks) + 1
    /\ lastOp = NoOp
    /\ calls = [p \in Procs |-> Idle]

NextUpdate == \E input \in UpdateTaskInputs : UpdateTask(input)

SpecUpdate == InitUpdate /\ [][NextUpdate]_vars

----------------------------------------------------------------------------
(* The four writing handlers, each call run to completion, in two projects, *)
(* on at most MaxUpdateTasks tasks                                          *)

\* the patches of updateTask here: no assignee, and a position that is absent
\* or the head of the column
HeadUpdateInputs ==
    {input \in UpdateTaskInputs : input.assignee_id = NoAssignee /\ input.position \subseteq {0}}

NextProjects ==
    \/ \E input \in CreateTaskInputs : nextId <= MaxUpdateTasks /\ CreateTask(input)
    \/ \E input \in HeadUpdateInputs : UpdateTask(input)
    \/ \E input \in MoveTaskInputs : input.id <= MaxUpdateTasks /\ MoveTask(input)
    \/ \E id \in 1..MaxUpdateTasks : DeleteTask(id)

SpecProjects == InitCreate /\ [][NextProjects]_vars

----------------------------------------------------------------------------
(* getTasks, after creations and moves with in-range targets in two projects *)

\* the place of a status in the enum: the order of asc(tasksTable.status)
statusIndex(status) == CHOOSE i \in 1..Len(TaskStatusEnum) : TaskStatusEnum[i] = status

\* the sequences that hold each row of the set rows once
Listings(rows) ==
    {seq \in [1..Cardinality(rows) -> rows] : \A t \in rows : \E i \in DOMAIN seq : seq[i] = t}

\* mutant: the statuses are ordered as text
getTasksByStatusName(T, project_id) ==
    LET names == <<"done", "in_progress", "review", "todo">>
        index(status) == CHOOSE i \in 1..Len(names) : names[i] = status
    IN {seq \in Listings({t \in T : t.project_id = project_id}) :
          \A i, j \in DOMAIN seq :
             i < j => \/ index(seq[i].status) < index(seq[j].status)
                      \/ /\ seq[i].status = seq[j].status
                         /\ seq[i].position <= seq[j].position}

\* select from tasks where project_id order by status asc, position asc: the
\* lists the statement may return (rows equal in status and position come in
\* either order)
getTasks(T, project_id) ==
    {seq \in Listings({t \in T : t.project_id = project_id}) :
       \A i, j \in DOMAIN seq :
          i < j => \/ statusIndex(seq[i].status) < statusIndex(seq[j].status)
                   \/ /\ seq[i].status = seq[j].status
                      /\ seq[i].position <= seq[j].position}

\* a getTasks call; it writes nothing
GetTasks(project_id) ==
    /\ \E rows \in IF project_id \in projects THEN getTasks(tasks, project_id) ELSE {<<>>} :
          lastOp' = [op |-> "getTasks", id |-> project_id, from |-> "none", row |-> NoTask,
                     result |-> IF project_id \in projects THEN "ok" ELSE "Project not found",
                     rows |-> rows]
    /\ UNCHANGED <<projects, tasks, nextId, calls>>

NextGetTasks ==
    \/ \E input \in CreateTaskInputs : CreateTask(input)
    \/ \E input \in InRangeMoves(tasks) : MoveTask(input)
    \/ \E project_id \in ProjectIds \cup {MissingId} : GetTasks(project_id)

SpecGetTasks == InitCreate /\ [][NextGetTasks]_vars

----------------------------------------------------------------------------
(* One caller in a deleteTask call on a dense store, and getTasks calls of   *)
(* other callers between its statements                                      *)

InitDeleteRead ==
    /\ projects = {1}
    /\ tasks \in DenseStores
    /\ nextId = Cardinality(tasks) + 1
    /\ lastOp = NoOp
    /\ \E id \in TaskIds :
          calls = [p \in Procs |->
                     IF p = 1 THEN Started("deleteTask", DeleteInput(id), tasks) ELSE Idle]

NextDeleteRead ==
    \/ \E p \in Procs : DeleteTaskStep(p)
    \/ \E project_id \in ProjectIds : GetTasks(project_id)

SpecDeleteRead == InitDeleteRead /\ [][NextDeleteRead]_vars

----------------------------------------------------------------------------
(* Two callers each in a createTask call, on a dense store with room for two *)
(* more tasks                                                                *)

InitCreateCreate ==
    /\ projects = {1}
    /\ tasks \in {T \in DenseStores \cup {{}} : Cardinality(T) + 2 <= MaxTasks}
    /\ nextId = Cardinality(tasks) + 1
    /\ lastOp = NoOp
    /\ calls \in [Procs -> {StartedCreate(input, tasks) : input \in CreateTaskInputs}]

NextCreateCreate == \E p \in Procs : CreateTaskStep(p)

SpecCreateCreate == InitCreateCreate /\ [][NextCreateCreate]_vars

----------------------------------------------------------------------------
(* Two callers each in a createTask, moveTask or deleteTask call, on a dense *)
(* store of two projects; the two calls touch no column in common            *)

\* the store after createTask calls with statuses f[i] into projects g[i]
StoreOfProjects(f, g) ==
    {[id |-> i, project_id |-> g[i], status |-> f[i],
      position |-> Cardinality({j \in 1..(i - 1) : f[j] = f[i] /\ g[j] = g[i]})] : i \in DOMAIN f}

DenseProjectStores ==
    UNION {{StoreOfProjects(f, g) : f \in [1..n -> StatusInputs], g \in [1..n -> ProjectIds]} :
             n \in 1..MaxTasks}

\* the calls that may begin on store T: a createTask that passes its checks,
\* a moveTask with an in-range target and a deleteTask of a task of T
CallsOn(T) ==
    {StartedCreate(input, T) :
        input \in {i \in CreateTaskInputs : i.created_by \in UserIds /\ i.assignee_id = NoAssignee}}
      \cup {Started("moveTask", input, T) : input \in InRangeMoves(T)}
      \cup {Started("deleteTask", DeleteInput(t.id), T) : t \in T}

\* the (project_id, status) columns whose rows the statements of call c name,
\* c beginning on store T
Touched(c, T) ==
    IF c.op = "createTask" THEN {<<c.input.project_id, c.input.status>>}
    ELSE LET e == getTaskById(T, c.input.id)
         IN IF e = NoTask THEN {}
            ELSE IF c.op = "moveTask"
              THEN {<<e.project_id, e.status>>, <<e.project_id, c.input.status>>}
            ELSE {<<e.project_id, e.status>>}

\* the store after call c has run to completion on store T, id being the next
\* of the serial
CallStore(c, T, id) ==
    IF c.op = "createTask" THEN createTaskStore(projects, T, id, c.input)
    ELSE IF c.op = "moveTask" THEN moveTaskStore(T, c.input)
    ELSE deleteTaskStore(T, c.input.id)

\* the store after c has run to completion on T and then d
Serial(c, d, T) ==
    LET id == Cardinality(T) + 1
    IN CallStore(d, CallStore(c, T, id), IF c.op = "createTask" THEN id + 1 ELSE id)

InitDisjoint ==
    /\ projects = ProjectIds
    /\ tasks \in DenseProjectStores
    /\ nextId = Cardinality(tasks) + 1
    /\ lastOp = NoOp
    /\ calls \in {f \in [Procs -> CallsOn(tasks)] :
                    Touched(f[1], tasks) \cap Touched(f[2], tasks) = {}}

NextDisjoint == \E p \in Procs : CreateTaskStep(p) \/ MoveTaskStep(p) \/ DeleteTaskStep(p)

SpecDisjoint == InitDisjoint /\ [][NextDisjoint]_vars

----------------------------------------------------------------------------
(* One caller in a moveTask call and one in a deleteTask call, on a dense store *)

InitMoveDelete ==
    /\ projects = {1}
    /\ tasks \in DenseStores
    /\ nextId = Cardinality(tasks) + 1
    /\ lastOp = NoOp
    /\ \E input \in MoveTaskInputs, id \in TaskIds :
          calls = [p \in Procs |-> IF p = 1 THEN Started("moveTask", input, tasks)
                                   ELSE Started("deleteTask", DeleteInput(id), tasks)]

NextMoveDelete == \E p \in Procs : MoveTaskStep(p) \/ DeleteTaskStep(p)

SpecMoveDelete == InitMoveDelete /\ [][NextMoveDelete]_vars

(* Two callers each in a deleteTask call, on a dense store *)

InitDeleteDelete ==
    /\ projects = {1}
    /\ tasks \in DenseStores
    /\ nextId = Cardinality(tasks) + 1
    /\ lastOp = NoOp
    /\ calls \in [Procs -> {Started("deleteTask", DeleteInput(id), tasks) : id \in TaskIds}]

NextDeleteDelete == \E p \in Procs : DeleteTaskStep(p)

SpecDeleteDelete == InitDeleteDelete /\ [][NextDeleteDelete]_vars

----------------------------------------------------------------------------
(* A moveTask call with an in-range target on a dense store, and after it    *)
(* has returned a moveTask call of the same task back to where it was        *)

InitRoundTrip ==
    /\ projects = {1}
    /\ tasks \in DenseStores
    /\ nextId = Cardinality(tasks) + 1
    /\ lastOp = NoOp
    /\ \E input \in InRangeMoves(tasks) :
          LET e == getTaskById(tasks, input.id)
              back == [id |-> input.id, status |-> e.status, position |-> e.position]
          IN calls = [p \in Procs |-> IF p = 1 THEN Started("moveTask", input, tasks)
                                      ELSE Started("moveTask", back, tasks)]

NextRoundTrip ==
    \/ MoveTaskStep(1)
    \/ calls[1].pc = "done" /\ MoveTaskStep(2)

SpecRoundTrip == InitRoundTrip /\ [][NextRoundTrip]_vars

----------------------------------------------------------------------------
(* Claims on calls that run to completion, one after another (Spec) *)

\* C1: density invariant: in every project and status the positions of the
\* tasks are exactly {0,...,k-1}, after any sequence of createTask / moveTask /
\* deleteTask calls, moveTask taking any integer target position.
C1_DensityInvariant == \A p \in ProjectIds, s \in Statuses : Dense(tasks, p, s)

\* C4: uniqueness invariant I2: after every completed call no two tasks share
\* (project_id, status, position), whatever integer target moveTask was given.
C4_UniquePositions ==
    \A t \in tasks, u \in tasks :
        (t.project_id = u.project_id /\ t.status = u.status /\ t.position = u.position)
            => t.id = u.id

\* a move to a negative position into a column that holds another task
C4_Witness ==
    /\ lastOp.op = "moveTask" /\ lastOp.result = "ok"
    /\ lastOp.row.position = -1
    /\ lastOp.from # lastOp.row.status
    /\ Cardinality(Column(tasks, lastOp.row.project_id, lastOp.row.status)) >= 2

\* the call a step has just completed, read from the step's lastOp
Moved == lastOp'.op = "moveTask" /\ lastOp'.result = "ok"
Deleted == lastOp'.op = "deleteTask" /\ lastOp'.result = "true"
Created == lastOp'.op = "createTask" /\ lastOp'.result = "ok"

\* C5: moveTask within a dense column of k tasks to a target t in [0,k-1]
\* gives the column with the task removed and reinserted at index t: the
\* task is at t, the others keep their order, the positions are {0,...,k-1}.
C5_MoveWithinColumn ==
    [][LET e == getTaskById(tasks, lastOp'.id)
           target == lastOp'.row
           k == Cardinality(Column(tasks, e.project_id, e.status))
       IN (/\ Moved
           /\ e.status = target.status
           /\ Dense(tasks, e.project_id, e.status)
           /\ target.position \in 0..(k - 1))
          => /\ Dense(tasks', e.project_id, e.status)
             /\ getTaskById(tasks', e.id).position = target.position
             /\ ColumnOrder(tasks', e.project_id, e.status)
                  = InsertAt(Remove(ColumnOrder(tasks, e.project_id, e.status), e.id),
                             target.position, e.id)]_vars

\* the first created of three tasks was moved within its column to the end:
\* the column reads task 2, task 3, task 1
C5_Witness ==
    /\ lastOp.op = "moveTask" /\ lastOp.result = "ok" /\ lastOp.id = 1
    /\ lastOp.from = lastOp.row.status
    /\ lastOp.row.position = 2
    /\ Dense(tasks, lastOp.row.project_id, lastOp.row.status)
    /\ ColumnOrder(tasks, lastOp.row.project_id, lastOp.row.status) = <<2, 3, 1>>

\* C6: moveTask from a dense column to a dense column of another status at a
\* target t in [0,n], n the size of the destination, leaves the source dense
\* with its other tasks in order, and the destination dense with the task at
\* t and the previous tasks in order.
C6_MoveAcrossColumns ==
    [][LET e == getTaskById(tasks, lastOp'.id)
           target == lastOp'.row
           n == Cardinality(Column(tasks, e.project_id, target.status))
       IN (/\ Moved
           /\ e.status # target.status
           /\ Dense(tasks, e.project_id, e.status)
           /\ Dense(tasks, e.project_id, target.status)
           /\ target.position \in 0..n)
          => /\ Dense(tasks', e.project_id, e.status)
             /\ Dense(tasks', e.project_id, target.status)
             /\ ColumnOrder(tasks', e.project_id, e.status)
                  = Remove(ColumnOrder(tasks, e.project_id, e.status), e.id)
             /\ ColumnOrder(tasks', e.project_id, target.status)
                  = InsertAt(ColumnOrder(tasks, e.project_id, target.status),
                             target.position, e.id)]_vars

\* task 1 came from another status to the head of a column that held a task,
\* and left task 2 behind in its old column
C6_Witness ==
    /\ lastOp.op = "moveTask" /\ lastOp.result = "ok" /\ lastOp.id = 1
    /\ lastOp.from # lastOp.row.status
    /\ lastOp.row.position = 0
    /\ Dense(tasks, lastOp.row.project_id, lastOp.row.status)
    /\ ColumnOrder(tasks, lastOp.row.project_id, lastOp.row.status) = <<1, 3>>
    /\ Dense(tasks, lastOp.row.project_id, lastOp.from)
    /\ ColumnOrder(tasks, lastOp.row.project_id, lastOp.from) = <<2>>

\* C7: deleteTask of the task at position p of a dense column of k tasks
\* removes it, decrements by exactly 1 every position above p in the column,
\* leaves every other row alone: positions {0,...,k-2}, order kept.
C7_DeleteCompaction ==
    [][LET e == getTaskById(tasks, lastOp'.id)
       IN (Deleted /\ Dense(tasks, e.project_id, e.status))
          => /\ ~HasRow(tasks', e.id)
             /\ \A t \in tasks : t.id # e.id =>
                  getTaskById(tasks', t.id) =
                     IF /\ t.project_id = e.project_id /\ t.status = e.status
                        /\ t.position > e.position
                       THEN [t EXCEPT !.position = t.position - 1] ELSE t
             /\ Cardinality(tasks') = Cardinality(tasks) - 1
             /\ Dense(tasks', e.project_id, e.status)
             /\ ColumnOrder(tasks', e.project_id, e.status)
                  = Remove(ColumnOrder(tasks, e.project_id, e.status), e.id)]_vars

\* the second created of three tasks of a column was deleted: the column
\* reads task 1, task 3
C7_Witness ==
    /\ lastOp.op = "deleteTask" /\ lastOp.result = "true" /\ lastOp.id = 2
    /\ Dense(tasks, 1, lastOp.from)
    /\ ColumnOrder(tasks, 1, lastOp.from) = <<1, 3>>

\* C9: createTask gives the new task 1 + the maximum position of the tasks of
\* the same (project_id, status), or 0 if there is none.
C9_CreateAfterMax ==
    [][LET new == getTaskById(tasks', lastOp'.id)
           col == Column(tasks, new.project_id, new.status)
       IN Created
          => /\ new # NoTask /\ ~HasRow(tasks, new.id)
             /\ IF col = {} THEN new.position = 0
                ELSE \E t \in col : /\ \A u \in col : u.position <= t.position
                                    /\ new.position = 1 + t.position]_vars

\* a task was created into a column of one task that stood at position 1
C9_Witness ==
    /\ lastOp.op = "createTask" /\ lastOp.result = "ok"
    /\ lastOp.row.position = 2
    /\ Cardinality(Column(tasks, lastOp.row.project_id, lastOp.row.status)) = 2

\* C10: in every reachable state a task created by createTask gets a position
\* equal to the number of tasks its column held just before the creation (the
\* column holds one more, the new task, in the state after the call).
C10_CreateAtCount ==
    (lastOp.op = "createTask" /\ lastOp.result = "ok")
        => lastOp.row.position
             = Cardinality(Column(tasks, lastOp.row.project_id, lastOp.row.status)) - 1


\* C12: deleteTask on an id that names no task returns false (no error) and
\* leaves the set of tasks and every status and position as they were.
C12_DeleteAbsent ==
    [][(lastOp'.op = "deleteTask" /\ ~HasRow(tasks, lastOp'.id))
          => (lastOp'.result = "false" /\ tasks' = tasks)]_vars

\* a deleteTask found no task while the table held rows
C12_Witness ==
    /\ lastOp.op = "deleteTask" /\ lastOp.result = "false"
    /\ ~HasRow(tasks, lastOp.id)
    /\ Cardinality(tasks) >= 2

\* C13: moveTask on an id that names no task fails with the task-not-found
\* error and changes no task's status or position.
C13_MoveAbsent ==
    [][(lastOp'.op = "moveTask" /\ ~HasRow(tasks, lastOp'.id))
          => (lastOp'.result = "Task not found" /\ tasks' = tasks)]_vars

\* a moveTask found no task while the table held rows
C13_Witness ==
    /\ lastOp.op = "moveTask" /\ lastOp.result = "Task not found"
    /\ ~HasRow(tasks, lastOp.id)
    /\ Cardinality(tasks) >= 2

\* C14: createTask is append-only: a successful createTask changes the status
\* and position of no task that existed before it.
C14_CreateAppendOnly ==
    [][Created => \A t \in tasks : getTaskById(tasks', t.id) = t]_vars

\* a task was created into a column that held two tasks
C14_Witness ==
    /\ lastOp.op = "createTask" /\ lastOp.result = "ok"
    /\ Cardinality(Column(tasks, lastOp.row.project_id, lastOp.row.status)) = 3

\* C15: moveTask to the task's current status and current position shifts
\* nothing: every task, the moved one included, keeps its status and position.
C15_MoveToSamePlace ==
    [][LET e == getTaskById(tasks, lastOp'.id)
       IN (/\ Moved
           /\ e.status = lastOp'.row.status
           /\ e.position = lastOp'.row.position)
          => tasks' = tasks]_vars

\* a move within its column returned for the middle one of three tasks that
\* stand in creation order
C15_Witness ==
    /\ lastOp.op = "moveTask" /\ lastOp.result = "ok" /\ lastOp.id = 2
    /\ lastOp.from = lastOp.row.status
    /\ lastOp.row.position = 1
    /\ Dense(tasks, lastOp.row.project_id, lastOp.row.status)
    /\ ColumnOrder(tasks, lastOp.row.project_id, lastOp.row.status) = <<1, 2, 3>>

\* C20: every task's position is a non-negative integer in every state
\* reachable through calls whose inputs pass the input schemas.
C20_NonNegativePositions == \A t \in tasks : t.position >= 0

----------------------------------------------------------------------------
(* Claims on creations over existing rows (SpecGuard) *)

----------------------------------------------------------------------------
(* Claims on creations only (SpecCreate) *)

\* C8: creating tasks one after another into an empty column yields positions
\* 0,1,...,N-1 in creation order (the serial id is the creation order),
\* whatever is created into other columns and other projects in between.
C8_AppendInOrder ==
    \A t \in tasks :
        t.position = Cardinality({u \in Column(tasks, t.project_id, t.status) : u.id < t.id})

\* the first and the third task created share a column, the second one went
\* to the other project
C8_Witness ==
    /\ lastOp.op = "createTask" /\ lastOp.result = "ok" /\ lastOp.id = 3
    /\ lastOp.row.position = 1
    /\ getTaskById(tasks, 1).status = lastOp.row.status
    /\ getTaskById(tasks, 1).project_id = lastOp.row.project_id
    /\ getTaskById(tasks, 2).project_id # lastOp.row.project_id

----------------------------------------------------------------------------
(* Claims on interleaved calls (SpecMoveMove) *)

AllDone == \A p \in Procs : calls[p].pc = "done"

\* C2: two concurrent moveTask calls targeting the same (project, status)
\* column, started on dense columns with in-range targets, leave the column's
\* positions exactly {0,...,k-1} once both have returned, under every
\* interleaving of their statements.
C2_ConcurrentMovesDense ==
    (AllDone /\ calls[1].input.status = calls[2].input.status)
        => Dense(tasks, 1, calls[1].input.status)

----------------------------------------------------------------------------
(* Claims on failing statements (SpecFail) *)

\* C3: a moveTask or deleteTask call never partially applies: when a statement
\* of the call fails after an earlier statement of it was applied, the rows of
\* the store are those from before the call.
C3_NoPartialApply ==
    \A p \in Procs :
        (calls[p].pc = "failed" /\ calls[p].applied > 0) => tasks = calls[p].before

----------------------------------------------------------------------------
(* Claims on updateTask (SpecUpdate) *)

Updated == lastOp'.op = "updateTask" /\ lastOp'.result = "ok"

\* C16: updateTask whose patch changes status and supplies no position puts
\* the task at the end of the destination column: its new position is 1 + the
\* maximum position of the (project_id, new status) column, or 0 if it is empty.
C16_UpdateAppends ==
    [][LET e == getTaskById(tasks, lastOp'.id)
           dest == Column(tasks, e.project_id, lastOp'.patch.status)
       IN (/\ Updated
           /\ lastOp'.patch.status \notin {"undefined", e.status}
           /\ lastOp'.patch.position = {})
          => /\ lastOp'.row.status = lastOp'.patch.status
             /\ lastOp'.row.position
                  = IF dest = {} THEN 0
                    ELSE 1 + (CHOOSE m \in {t.position : t \in dest} :
                                \A t \in dest : t.position <= m)]_vars

\* an update without position moved a task behind the task of another column
C16_Witness ==
    /\ lastOp.op = "updateTask" /\ lastOp.result = "ok"
    /\ lastOp.patch.position = {}
    /\ lastOp.from # lastOp.row.status
    /\ lastOp.row.position = 1
    /\ Dense(tasks, lastOp.row.project_id, lastOp.row.status)

\* C17: from a state where all columns are dense, an updateTask that changes a
\* task's status without supplying a position leaves both the source column
\* and the destination column with positions exactly {0,...,k-1}.
C17_UpdateKeepsDense ==
    [][LET e == getTaskById(tasks, lastOp'.id)
       IN (/\ Updated
           /\ lastOp'.patch.status \notin {"undefined", e.status}
           /\ lastOp'.patch.position = {}
           /\ \A s \in Statuses : Dense(tasks, e.project_id, s))
          => /\ Dense(tasks', e.project_id, e.status)
             /\ Dense(tasks', e.project_id, lastOp'.patch.status)]_vars

\* C18: updateTask whose patch changes status and supplies a position sets
\* the task to exactly that position and changes the position of no other
\* task (so a position already taken in the destination column is then held
\* by two tasks).
C18_UpdateExplicitPosition ==
    [][LET e == getTaskById(tasks, lastOp'.id)
       IN (/\ Updated
           /\ lastOp'.patch.status \notin {"undefined", e.status}
           /\ lastOp'.patch.position # {})
          => /\ lastOp'.row.status = lastOp'.patch.status
             /\ lastOp'.patch.position = {lastOp'.row.position}
             /\ \A t \in tasks : t.id # lastOp'.id => t \in tasks']_vars

\* an update with a position moved a task onto the position of a task of
\* another column: the two now share project, status and position
C18_Witness ==
    /\ lastOp.op = "updateTask" /\ lastOp.result = "ok"
    /\ lastOp.patch.position # {}
    /\ lastOp.from # lastOp.row.status
    /\ \E t \in tasks : /\ t.id # lastOp.id
                        /\ t.project_id = lastOp.row.project_id
                        /\ t.status = lastOp.row.status
                        /\ t.position = lastOp.row.position

\* C19 as stated: an updateTask whose patch does not change the task's status
\* leaves that task's position unchanged.
C19_UpdateSameStatusKeepsPosition ==
    [][LET e == getTaskById(tasks, lastOp'.id)
       IN (Updated /\ lastOp'.patch.status \in {"undefined", e.status})
          => lastOp'.row.position = e.position]_vars

\* C19 amended: an updateTask whose patch does not change the task's status
\* and supplies no position leaves that task's status and position unchanged.
C19_UpdateWithoutStatusOrPosition ==
    [][LET e == getTaskById(tasks, lastOp'.id)
       IN (/\ Updated
           /\ lastOp'.patch.status \in {"undefined", e.status}
           /\ lastOp'.patch.position = {})
          => lastOp'.row = e]_vars

\* an update that named the task's own status and no position returned for
\* the first of two tasks of a column
C19_Witness ==
    /\ lastOp.op = "updateTask" /\ lastOp.result = "ok"
    /\ lastOp.patch.position = {}
    /\ lastOp.patch.status = lastOp.from
    /\ lastOp.row.position = 0
    /\ Cardinality(Column(tasks, lastOp.row.project_id, lastOp.row.status)) = 2

----------------------------------------------------------------------------
(* Claims on the four writing handlers in two projects (SpecProjects) *)

\* C21: a task's id and project_id never change after creation: every call of
\* createTask, updateTask, moveTask or deleteTask leaves each existing task
\* under its id and in its project (a deleteTask removes the one it names),
\* and the shifts of moveTask and deleteTask change rows of the moved or
\* deleted task's own project only.
C21_IdAndProjectImmutable ==
    [][/\ \A t \in tasks :
            IF lastOp'.op = "deleteTask" /\ lastOp'.id = t.id
              THEN ~HasRow(tasks', t.id)
              ELSE /\ HasRow(tasks', t.id)
                   /\ getTaskById(tasks', t.id).project_id = t.project_id
       /\ lastOp'.op \in {"moveTask", "deleteTask"}
            => \A t \in tasks :
                 t.project_id # getTaskById(tasks, lastOp'.id).project_id
                    => t \in tasks']_vars

\* a moveTask put a task of one project at the position a task of the other
\* project holds in the same status
C21_Witness ==
    /\ lastOp.op = "moveTask" /\ lastOp.result = "ok"
    /\ lastOp.from # lastOp.row.status
    /\ \E t \in tasks : /\ t.project_id # lastOp.row.project_id
                        /\ t.status = lastOp.row.status
                        /\ t.position = lastOp.row.position

\* C30: moveTask changes the status or position of no task outside the moved
\* task's project and outside its source and destination columns, deleteTask
\* changes no task outside the deleted task's (project_id, status) column,
\* and neither creates a task nor removes one other than the one deleted.
C30_MoveDeleteFrame ==
    [][LET e == getTaskById(tasks, lastOp'.id)
           ids(T) == {t.id : t \in T}
       IN /\ lastOp'.op = "moveTask"
               => /\ ids(tasks') = ids(tasks)
                  /\ \A t \in tasks :
                        (\/ t.project_id # e.project_id
                         \/ t.status \notin {e.status, lastOp'.row.status})
                           => t \in tasks'
          /\ lastOp'.op = "deleteTask"
               => /\ ids(tasks') = ids(tasks) \ {lastOp'.id}
                  /\ \A t \in tasks :
                        (t.project_id # e.project_id \/ t.status # e.status)
                           => t \in tasks']_vars

\* a moveTask within a status returned while the other project holds a task
\* of that status
C30_Witness ==
    /\ lastOp.op = "moveTask" /\ lastOp.result = "ok"
    /\ lastOp.from = lastOp.row.status
    /\ \E t \in tasks : t.project_id # lastOp.row.project_id /\ t.status = lastOp.row.status

----------------------------------------------------------------------------
(* Claims on getTasks (SpecGetTasks) *)

\* C22: getTasks(project_id) returns exactly the tasks of that project,
\* ordered first by status in the column order todo, in_progress, review,
\* done and then by ascending position within each status.
C22_GetTasksOrdered ==
    (lastOp.op = "getTasks" /\ lastOp.result = "ok")
      => LET rows == lastOp.rows
             columnOrder == <<"todo", "in_progress", "review", "done">>
             place(status) == CHOOSE i \in 1..4 : columnOrder[i] = status
         IN /\ Len(rows) = Cardinality({t \in tasks : t.project_id = lastOp.id})
            /\ {rows[i] : i \in DOMAIN rows} = {t \in tasks : t.project_id = lastOp.id}
            /\ \A i, j \in DOMAIN rows :
                  i < j => /\ place(rows[i].status) <= place(rows[j].status)
                           /\ rows[i].status = rows[j].status
                                => rows[i].position <= rows[j].position

\* getTasks returned the in_progress task created first after the todo task
\* created second, while the other project holds a task too
C22_Witness ==
    /\ lastOp.op = "getTasks" /\ lastOp.result = "ok"
    /\ Len(lastOp.rows) = 2
    /\ lastOp.rows[1].status = "todo" /\ lastOp.rows[2].status = "in_progress"
    /\ lastOp.rows[1].id > lastOp.rows[2].id
    /\ \E t \in tasks : t.project_id # lastOp.id

----------------------------------------------------------------------------
(* Claims on reads during a deleteTask call (SpecDeleteRead) *)

\* C23: deletion and compaction are atomic to other callers: a getTasks that
\* runs while a deleteTask call on a dense store is in flight returns the
\* rows from before the call or the rows after it, never the rows with the
\* task deleted and the positions after it not yet decremented.
C23_DeleteAtomicToReaders ==
    (lastOp.op = "getTasks" /\ lastOp.result = "ok")
      => LET seen == {lastOp.rows[i] : i \in DOMAIN lastOp.rows}
         IN \/ seen = calls[1].before
            \/ seen = deleteTaskStore(calls[1].before, calls[1].input.id)

----------------------------------------------------------------------------
(* Claims on interleaved creations (SpecCreateCreate) *)

\* C24: two createTask calls into the same (project_id, status) column whose
\* statements interleave never both get the same position, and the column is
\* dense once both have returned.
C24_ConcurrentCreatesDense ==
    (/\ \A p \in Procs : calls[p].pc = "done" /\ calls[p].result = "ok"
     /\ calls[1].input.project_id = calls[2].input.project_id
     /\ calls[1].input.status = calls[2].input.status)
      => /\ calls[1].nextPosition # calls[2].nextPosition
         /\ Dense(tasks, calls[1].input.project_id, calls[1].input.status)

----------------------------------------------------------------------------
(* Claims on interleaved calls on disjoint columns (SpecDisjoint) *)

\* the rows of T, the ids given by the two calls left out (which call gets
\* which id depends on the order of the inserts)
Positions(T) ==
    {[t EXCEPT !.id = IF t.id > Cardinality(calls[1].before) THEN 0 ELSE @] : t \in T}

\* C25: for two createTask / moveTask / deleteTask calls whose touched
\* (project_id, status) columns are disjoint, every interleaving of their
\* statements ends with the statuses and positions that running the two calls
\* one after the other gives, in either order.
C25_DisjointCallsIndependent ==
    AllDone
      => /\ Positions(tasks) = Positions(Serial(calls[1], calls[2], calls[1].before))
         /\ Positions(tasks) = Positions(Serial(calls[2], calls[1], calls[1].before))
\* a moveTask that shifted another task of its column and a deleteTask of a
\* task of another column have both returned
C25_Witness ==
    /\ AllDone
    /\ calls[1].op = "moveTask" /\ calls[1].result = "ok"
    /\ calls[2].op = "deleteTask" /\ calls[2].result = "true"
    /\ \E t \in tasks : /\ t.id # calls[1].input.id
                        /\ t.project_id = calls[1].existingTask.project_id
                        /\ t \notin calls[1].before
----------------------------------------------------------------------------
(* Claims on a moveTask interleaved with a deleteTask (SpecMoveDelete) *)

\* C27: every moveTask call that does not fail with task-not-found returns an
\* existing row whose status and position are the requested target, also
\* when a deleteTask of the same task runs between its existence check and
\* its final update.
C27_MoveReturnsRow ==
    (lastOp.op = "moveTask" /\ lastOp.result # "Task not found")
      => /\ lastOp.result = "ok"
         /\ lastOp.row.id = calls[1].input.id
         /\ lastOp.row.status = calls[1].input.status
         /\ lastOp.row.position = calls[1].input.position

----------------------------------------------------------------------------
(* Claims on two interleaved deleteTask calls (SpecDeleteDelete) *)

\* C28: when two deleteTask calls for the same id of an existing task
\* interleave, exactly one of them returns true and the tasks after the
\* deleted one have gone up by exactly 1 once both have returned.
C28_ShiftOncePerDelete ==
    (/\ AllDone
     /\ calls[1].input.id = calls[2].input.id
     /\ HasRow(calls[1].before, calls[1].input.id))
      => /\ Cardinality({p \in Procs : calls[p].result = "true"}) = 1
         /\ tasks = deleteTaskStore(calls[1].before, calls[1].input.id)
----------------------------------------------------------------------------
(* Claims on a move and the move back (SpecRoundTrip) *)

\* C29: on dense columns, moving a task from (S, p) to (S', q) with q in range
\* and then moving it back to (S, p) gives every task of the project the
\* status and position it had before the first move.
C29_MoveRoundTrip == AllDone => tasks = calls[1].before

\* a task was moved from the head of its column to the head of another column
\* and back, a task standing behind it in each of the two columns
C29_Witness ==
    /\ AllDone
    /\ calls[1].input.status # calls[2].input.status
    /\ calls[1].input.position = 0 /\ calls[2].input.position = 0
    /\ \E t, u \in calls[1].before :
          /\ t.id # calls[1].input.id /\ t.status = calls[2].input.status
          /\ u.status = calls[1].input.status

=============================================================================
